---- MODULE Spec2Model ----
(***************************************************************************)
(* GSimulator/command_helper.py, plotter: the per-configuration evaluation *)
(* loop, the saturation lookup, the overlay and contour figures and the    *)
(* persistence of the figures.                                             *)
(*                                                                         *)
(* Numbers.  Energies, offsets and conductances are integers counting      *)
(* twentieths: 1.0 is One = 20 and the sweep step 0.1 is Step = 2, so an   *)
(* offset may lie off the sweep's grid.                                    *)
(* An optional value (Python's None, an unbound local) is the empty        *)
(* sequence, a present value v is <<v>>.                                   *)
(***************************************************************************)
EXTENDS Integers, Sequences, FiniteSets, TLC

\* ------------------------------------------------------------- bounds
MaxPlots == 2
MaxOffset == 3
MaxChannels == 2

\* ---------------------------------------------------------- constants
\* the sweep step 0.1, in twentieths
Step == 2
One == 10 * Step
\* both sweeps start at -2
SweepStart == -2 * One
\* the differential sweep stops before 30
DiffStop == 30 * One
\* the display sweep allows 6 units of energy per channel
ChannelSpan == 6
\* the saturation margin: conductance >= channels - 0.1
SatMargin == 2
\* the overlay's x axis ends 1 past the saturation sample
Pad == 1 * One
\* the overlay's x axis starts at -1
XlimLow == -1 * One

None == <<>>
Some(v) == <<v>>

\* ------------------------------------------------------------- inputs
\* Configuration rows (hw_x, w_y/w_x, V_sd, B, angle).
Rows == { <<2, 1, 0, 0, 0>>, <<2, 1, 0, 1, 0>> }

\* The energies at which a model's first subband may open; with one channel
\* they are the saturation thresholds: below the sweep, off the grid, on the
\* last sample every sweep has, beyond the sweep.
Onsets == { -50, 11, 118, 130 }

RECURSIVE SeqsUpTo(_, _)
SeqsUpTo(S, n) ==
    IF n = 0 THEN { <<>> }
    ELSE LET shorter == SeqsUpTo(S, n - 1)
         IN  shorter \cup { Append(s, r) : s \in { t \in shorter : Len(t) = n - 1 }, r \in S }

VARIABLES
    pc,         \* the position in plotter
    exp_setup,  \* argument: the batch of configuration rows
    channels,   \* argument
    offset,     \* argument
    savefig,    \* argument: None or Some(file name)
    physics,    \* the Model collaborator: the subband onset of each row
    plots,      \* len(exp_setup)
    x,          \* the display sweep
    x_diff,     \* the differential sweep
    i,          \* the loop index
    table,      \* the rows of the summary table
    traces,     \* the lines of the overlay axis, each [xdata, ydata]
    dydx,       \* the derivative rows
    x_min,      \* None while unbound
    xlim,       \* x limits of the overlay axis, None until set
    fig1,       \* the contour figure, None until created
    effects,    \* console output, saved files and displays, in order
    error       \* the exception that ended the run, "none" otherwise

vars == << pc, exp_setup, channels, offset, savefig, physics, plots, x, x_diff, i,
           table, traces, dydx, x_min, xlim, fig1, effects, error >>

\* ------------------------------------------------------------ helpers
\* variant: the stop is included
ArangeLenInclusive(start, stop, step) ==
    IF stop < start THEN 0 ELSE (stop - start) \div step + 1

\* np.arange(start, stop, step): ceil((stop - start) / step) samples
ArangeLen(start, stop, step) ==
    IF stop <= start THEN 0 ELSE (stop - start + step - 1) \div step

Arange(start, stop, step) ==
    [ k \in 1..ArangeLen(start, stop, step) |-> start + (k - 1) * step ]

\* variant: the sweep is not widened by offset * plots
DisplayStopNoOffset(off, n, ch) == ch * ChannelSpan * One

\* the exclusive upper bound of the display sweep
DisplayStop(off, n, ch) == off * n + ch * ChannelSpan * One

\* variant: x + i * offset
ShiftRight(xs, d) == [ k \in 1..Len(xs) |-> xs[k] + d ]

\* x - i * offset: a new array, the operand is left alone
Shift(xs, d) == [ k \in 1..Len(xs) |-> xs[k] - d ]

\* Model(material, hw_x, hw_y, V_sd, B, angle)
Model(experiment, onset) ==
    LET hw_x == experiment[1]
        hw_y == experiment[2] * hw_x
    IN  [ hw_x |-> hw_x, hw_y |-> hw_y, eVsd |-> experiment[3],
          magnetic_field |-> experiment[4], angle |-> experiment[5],
          E1 |-> onset, E2 |-> onset + One,
          hw_c |-> << "hw_c", experiment[4] >>,
          zeeman |-> << "zeeman", experiment[4] >> ]

\* model.total_transmission(channels, energies): one conductance quantum for
\* every subband that is open at the energy; subbands are One apart.
OpenSubbands(E1, ch, e) ==
    IF e < E1 THEN 0
    ELSE IF (e - E1) \div One + 1 > ch THEN ch
    ELSE (e - E1) \div One + 1

Transmission(model, ch, energies) ==
    [ k \in 1..Len(energies) |-> One * OpenSubbands(model.E1, ch, energies[k]) ]

\* the energy from which Transmission(model, ch, .) equals ch
Saturation(model, ch) == model.E1 + (ch - 1) * One

\* the row added to the table
SummaryRow(model) ==
    << model.hw_x, model.hw_y \div model.hw_x, model.magnetic_field, model.angle,
       model.E1, model.E2, model.eVsd, model.hw_c, model.zeeman >>

\* np.where(y >= channels - 0.1)[0]: the matching indices, ascending
Where(y, ch) == { k \in 1..Len(y) : y[k] >= ch * One - SatMargin }

\* variant: min[0][-1]
LastIndex(matches) == CHOOSE k \in matches : \A m \in matches : k >= m

\* min[0][0]
FirstIndex(matches) == CHOOSE k \in matches : \A m \in matches : k <= m

\* np.gradient(y): central differences inside, one-sided at both ends
Gradient(y) ==
    LET n == Len(y)
    IN  [ k \in 1..n |->
            IF n = 1 THEN 0
            ELSE IF k = 1 THEN y[2] - y[1]
            ELSE IF k = n THEN y[k] - y[k - 1]
            ELSE (y[k + 1] - y[k - 1]) \div 2 ]

AddRow(t, row) == Append(t, row)
Plot(ls, xs, ys) == Append(ls, [ xdata |-> xs, ydata |-> ys ])

\* variant: dydx.insert(0, ...)
PrependDerivative(d, g) == << g >> \o d

\* dydx.append(np.gradient(y_diff))
AppendDerivative(d, g) == Append(d, g)

\* x_min = x[x_min_index] + 1
XMin(xs, index) == xs[index] + Pad

\* variant: plots > 0
ContourAlways(n) == n > 0

\* plots > 1
ContourWanted(n) == n > 1

\* variant: (x_min - (plots - 1) * offset) * 10
ContourLimitOffByTwo(xm, n, off) == (xm - (n - 1) * off) * 10

\* (x_min - (plots - 3) * offset) * 10
ContourLimit(xm, n, off) == (xm - (n - 3) * off) * 10

OverlayPath(file_name) == "./Results/" \o file_name

\* variant: the contour is saved under the overlay's name
DiffPathNoPrefix(file_name) == "./Results/" \o file_name

\* './Results/' + "diff_" + file_name
DiffPath(file_name) == "./Results/" \o "diff_" \o file_name

\* ------------------------------------------------------------ actions
Init ==
    /\ pc = "start"
    /\ exp_setup \in SeqsUpTo(Rows, MaxPlots)
    /\ channels \in 1..MaxChannels
    /\ offset \in 0..MaxOffset
    /\ savefig \in { None, Some("out.pdf") }
    /\ physics \in [ Rows -> Onsets ]
    /\ plots = 0
    /\ x = << >>
    /\ x_diff = << >>
    /\ i = 0
    /\ table = << >>
    /\ traces = << >>
    /\ dydx = << >>
    /\ x_min = None
    /\ xlim = None
    /\ fig1 = None
    /\ effects = << >>
    /\ error = "none"

\* lines 79-98: the figure, the table, the two sweeps
Setup ==
    /\ pc = "start"
    /\ plots' = Len(exp_setup)
    /\ x' = Arange(SweepStart, DisplayStop(offset, Len(exp_setup), channels), Step)
    /\ x_diff' = Arange(SweepStart, DiffStop, Step)
    /\ dydx' = << >>
    /\ i' = 0
    /\ pc' = "loop"
    /\ UNCHANGED << exp_setup, channels, offset, savefig, physics, table, traces,
                    x_min, xlim, fig1, effects, error >>

\* lines 100-124: one iteration of the loop
Iterate ==
    /\ pc = "loop"
    /\ i < plots
    /\ LET experiment == exp_setup[i + 1]
           model == Model(experiment, physics[experiment])
           y == Transmission(model, channels, Shift(x, i * offset))
           y_diff == Transmission(model, channels, x_diff)
           matches == Where(y, channels)
       IN  /\ table' = AddRow(table, SummaryRow(model))
           /\ traces' = Plot(traces, x, y)
           /\ IF i = plots - 1 /\ matches = {}
              THEN \* min[0][0] on an empty result: IndexError
                   /\ error' = "IndexError"
                   /\ pc' = "failed"
                   /\ UNCHANGED << x_min, dydx, i >>
              ELSE /\ x_min' = IF i = plots - 1
                               THEN Some(XMin(x, FirstIndex(matches)))
                               ELSE x_min
                   /\ dydx' = AppendDerivative(dydx, Gradient(y_diff))
                   /\ i' = i + 1
                   /\ UNCHANGED << pc, error >>
    /\ UNCHANGED << exp_setup, channels, offset, savefig, physics, plots, x, x_diff,
                    xlim, fig1, effects >>

\* lines 126-127: the table and the note
PrintTable ==
    /\ pc = "loop"
    /\ i = plots
    /\ effects' = effects \o << << "print", table >>, << "print", "Note" >> >>
    /\ pc' = "xlim"
    /\ UNCHANGED << exp_setup, channels, offset, savefig, physics, plots, x, x_diff, i,
                    table, traces, dydx, x_min, xlim, fig1, error >>

\* lines 130-132: axs.set_xlim([-1, x_min])
SetXlim ==
    /\ pc = "xlim"
    /\ IF x_min = None
       THEN \* x_min was never assigned: UnboundLocalError
            /\ error' = "UnboundLocalError"
            /\ pc' = "failed"
            /\ UNCHANGED xlim
       ELSE /\ xlim' = Some(<< XlimLow, x_min[1] >>)
            /\ pc' = "contour"
            /\ UNCHANGED error
    /\ UNCHANGED << exp_setup, channels, offset, savefig, physics, plots, x, x_diff, i,
                    table, traces, dydx, x_min, fig1, effects >>

\* lines 134-146: the contour figure and its file
Contour ==
    /\ pc = "contour"
    /\ IF ContourWanted(plots)
       THEN /\ fig1' = Some([ xlim |-> << 0, ContourLimit(x_min[1], plots, offset) >>,
                              contourf |-> dydx ])
            /\ effects' = IF savefig # None
                          THEN Append(effects, << "savefig", "fig1", DiffPath(savefig[1]) >>)
                          ELSE effects
       ELSE UNCHANGED << fig1, effects >>
    /\ pc' = "save"
    /\ UNCHANGED << exp_setup, channels, offset, savefig, physics, plots, x, x_diff, i,
                    table, traces, dydx, x_min, xlim, error >>

\* lines 148-149: the overlay figure's file
Save ==
    /\ pc = "save"
    /\ effects' = IF savefig # None
                  THEN Append(effects, << "savefig", "fig", OverlayPath(savefig[1]) >>)
                  ELSE effects
    /\ pc' = "show"
    /\ UNCHANGED << exp_setup, channels, offset, savefig, physics, plots, x, x_diff, i,
                    table, traces, dydx, x_min, xlim, fig1, error >>

\* line 151: plt.show()
Show ==
    /\ pc = "show"
    /\ effects' = Append(effects, << "show" >>)
    /\ pc' = "done"
    /\ UNCHANGED << exp_setup, channels, offset, savefig, physics, plots, x, x_diff, i,
                    table, traces, dydx, x_min, xlim, fig1, error >>

Next == Setup \/ Iterate \/ PrintTable \/ SetXlim \/ Contour \/ Save \/ Show

Spec == Init /\ [][Next]_vars

\* ------------------------------------------------------------- claims
AfterLoop == pc \in { "xlim", "contour", "save", "show", "done" } \/ (pc = "loop" /\ i = plots)

\* the model built from the k-th configuration row
ModelOf(k) == Model(exp_setup[k], physics[exp_setup[k]])

\* the saturation threshold E* of the last configuration
LastEstar == Saturation(ModelOf(Len(exp_setup)), channels)

Samples(xs) == { xs[k] : k \in 1..Len(xs) }

\* the first sample of xs, from position k on, that is >= e: a set of one sample,
\* empty when there is none
RECURSIVE FirstFrom(_, _, _)
FirstFrom(xs, e, k) ==
    IF k > Len(xs) THEN { }
    ELSE IF xs[k] >= e THEN { xs[k] }
    ELSE FirstFrom(xs, e, k + 1)

FirstSample(xs, e) == FirstFrom(xs, e, 1)

Saturated(ys) == \E k \in 1..Len(ys) : ys[k] >= channels * One - SatMargin

\* C1: once the loop over a batch of n >= 1 rows has completed, the table holds n
\* rows, the overlay axis n traces and dydx n derivative rows, and the k-th of each
\* was produced from the k-th configuration row.
C1_OnePerRowInOrder ==
    (AfterLoop /\ Len(exp_setup) >= 1) =>
        /\ Len(table) = Len(exp_setup)
        /\ Len(traces) = Len(exp_setup)
        /\ Len(dydx) = Len(exp_setup)
        /\ \A k \in 1..Len(exp_setup) :
              /\ table[k] = SummaryRow(ModelOf(k))
              /\ traces[k].ydata =
                    Transmission(ModelOf(k), channels,
                                 [ j \in 1..Len(x) |-> x[j] - (k - 1) * offset ])
              /\ dydx[k] = Gradient(Transmission(ModelOf(k), channels, x_diff))

C1_Witness ==
    /\ pc = "done"
    /\ Len(exp_setup) = 2
    /\ exp_setup[1] # exp_setup[2]
    /\ dydx[1] # dydx[2]
    /\ table[1] # table[2]

\* C2 as claimed: x_min is the first display-sweep sample >= E*, plus 1.
C2_Original ==
    x_min # None => FirstSample(x, LastEstar) = { x_min[1] - One }

\* C2 as amended: x_min is the first display-sweep sample >= E* + (n - 1) * offset,
\* plus 1: the last trace is evaluated on the sweep shifted by (n - 1) * offset.
C2_SaturationDetection ==
    x_min # None =>
        FirstSample(x, LastEstar + (Len(exp_setup) - 1) * offset) = { x_min[1] - One }

C2_Witness ==
    /\ pc = "done"
    /\ Len(exp_setup) = 2
    /\ offset = 2
    /\ LastEstar = 11
    /\ x_min[1] = 14 + One

\* C3: a last trace without a saturated sample ends the run in a dedicated
\* "saturation not reached" error, never in the indexing of the empty match.
C3_SaturationNotReachedIsExplicit ==
    (Len(traces) = Len(exp_setup) /\ Len(exp_setup) >= 1
        /\ ~Saturated(traces[Len(traces)].ydata))
    => (error # "IndexError" /\ (pc = "failed" => error = "SaturationNotReached"))

\* C4: an empty batch is rejected before any output: nothing is printed, no x
\* limits are set, nothing is shown, and the error is the dedicated one.
C4_EmptyBatchRejected ==
    (Len(exp_setup) = 0 /\ pc # "start") =>
        /\ effects = << >>
        /\ xlim = None
        /\ error \in { "none", "InvalidInput" }

\* C5: the contour figure exists only for n > 1, a completed run has it exactly
\* when n > 1, and a batch of one never saves a diff_ file.
C5_ContourIffSeveral ==
    /\ fig1 # None => Len(exp_setup) > 1
    /\ pc \in { "save", "show", "done" } => (fig1 # None <=> Len(exp_setup) > 1)
    /\ Len(exp_setup) = 1 =>
          \A k \in 1..Len(effects) : effects[k][1] = "savefig" => effects[k][2] # "fig1"

C5_Witness ==
    /\ pc = "done"
    /\ Len(exp_setup) = 1
    /\ savefig # None
    /\ fig1 = None

\* what a run did after printing
Persisted == SelectSeq(effects, LAMBDA e : e[1] # "print")

\* C6: a completed run without savefig writes nothing; with savefig it saves the
\* contour (when n > 1) as ./Results/diff_<savefig> and the overlay as
\* ./Results/<savefig>, once each; the display happens once, after the saves.
C6_Persistence ==
    pc = "done" =>
        Persisted =
            (IF savefig = None THEN << >>
             ELSE (IF Len(exp_setup) > 1
                   THEN << << "savefig", "fig1", "./Results/diff_" \o savefig[1] >> >>
                   ELSE << >>)
                  \o << << "savefig", "fig", "./Results/" \o savefig[1] >> >>)
            \o << << "show" >> >>

C6_Witness ==
    /\ pc = "done"
    /\ savefig # None
    /\ Len(exp_setup) > 1
    /\ Len(Persisted) = 3

StepSequence(xs, stop) ==
    /\ Len(xs) >= 1
    /\ xs[1] = SweepStart
    /\ \A k \in 1..(Len(xs) - 1) : xs[k + 1] = xs[k] + Step
    /\ xs[Len(xs)] < stop
    /\ xs[Len(xs)] + Step >= stop

\* C7: the display sweep is the step-0.1 sequence from -2 that stays below
\* offset * plots + channels * 6; the differential sweep is the step-0.1 sequence
\* from -2 that stays below 30 and has 320 samples, whatever the arguments.
C7_SweepConstruction ==
    pc # "start" =>
        /\ StepSequence(x, offset * Len(exp_setup) + channels * 6 * One)
        /\ StepSequence(x_diff, 30 * One)
        /\ Len(x_diff) = 320

C7_Witness ==
    /\ pc = "done"
    /\ (offset * Len(exp_setup)) % Step = 1
    /\ x[Len(x)] + 1 = offset * Len(exp_setup) + channels * 6 * One

\* C8: the i-th overlay trace is the transmission on the display sweep lowered by
\* i * offset, every trace is plotted against the one unshifted display sweep, and
\* the derivative rows come from the unshifted differential sweep.
C8_InputDomainShift ==
    pc # "start" =>
        /\ x = [ j \in 1..Len(x) |-> SweepStart + (j - 1) * Step ]
        /\ x_diff = [ j \in 1..Len(x_diff) |-> SweepStart + (j - 1) * Step ]
        /\ \A k \in 1..Len(traces) :
              /\ traces[k].xdata = x
              /\ traces[k].ydata =
                    Transmission(ModelOf(k), channels,
                                 [ j \in 1..Len(x) |-> x[j] - (k - 1) * offset ])
        /\ \A k \in 1..Len(dydx) :
              dydx[k] = Gradient(Transmission(ModelOf(k), channels, x_diff))

C8_Witness ==
    /\ pc = "done"
    /\ Len(traces) = 2
    /\ offset = 2
    /\ exp_setup[1] = exp_setup[2]
    /\ traces[1].ydata # traces[2].ydata

\* every configuration saturates no later than channels * 6 - 0.1
SaturatesInSpan ==
    \A k \in 1..Len(exp_setup) :
        Saturation(ModelOf(k), channels) <= channels * 6 * One - Step

\* C9: when every configuration saturates by channels * 6 - 0.1, every overlay
\* trace has a saturated sample and the lookup at the last index finds one.
C9_SweepWideEnough ==
    SaturatesInSpan =>
        /\ error # "IndexError"
        /\ \A k \in 1..Len(traces) : Saturated(traces[k].ydata)
        /\ (AfterLoop /\ Len(exp_setup) >= 1) =>
              (x_min # None /\ x_min[1] - One \in Samples(x))

C9_Witness ==
    /\ pc = "done"
    /\ Len(exp_setup) = 2
    /\ offset = 2
    /\ LastEstar = channels * 6 * One - Step
    /\ ~Saturated(SubSeq(traces[2].ydata, 1, Len(x) - 2))

====
